---- MODULE Spec2Model ----
(***************************************************************************)
(* Model of the Microsoft Style Guide analyzer                             *)
(* (src/src/style_analyzer.py, class WebEnabledStyleGuideAnalyzer).        *)
(*                                                                         *)
(* Text is modelled as a sequence of one-character strings, so that the    *)
(* substring tests, the whitespace split and the regular expressions of    *)
(* the source are computed rather than assumed.  The analyzer runs on an   *)
(* asyncio event loop: the code between two awaits that really suspend     *)
(* (the network read of fetch_web_content) runs atomically, so every       *)
(* action below is one such segment of a handler.                          *)
(***************************************************************************)
EXTENDS Integers, Sequences, FiniteSets, TLC

VARIABLES
    content_cache,  \* self.content_cache: a function whose DOMAIN is the cached urls
    session,        \* self.session is not None
    now,            \* asyncio.get_event_loop().time()
    pending,        \* per url, the number of session.get reads in flight
    task,           \* per caller, the handler it is suspended in (or idle)
    returned,       \* the most recent return of fetch_web_content
    response        \* the most recent return of search / analyze

vars == <<content_cache, session, now, pending, task, returned, response>>

-----------------------------------------------------------------------------
(* Bounds of the model *)

NumTasks == 2       \* concurrent callers
MaxTime  == 2       \* the clock stops advancing here
MaxWords == 2       \* number of words in an analyzed text

TaskIds == 1..NumTasks

-----------------------------------------------------------------------------
(* Strings as sequences of characters *)

Upper == <<"A","B","C","D","E","F","G","H","I","J","K","L","M",
           "N","O","P","Q","R","S","T","U","V","W","X","Y","Z">>
Lower == <<"a","b","c","d","e","f","g","h","i","j","k","l","m",
           "n","o","p","q","r","s","t","u","v","w","x","y","z">>
Digit == <<"0","1","2","3","4","5","6","7","8","9">>

Range(f) == {f[i] : i \in DOMAIN f}

UpperSet == Range(Upper)

\* the lower-case letter of each upper-case letter
ToLower == [c \in UpperSet |-> Lower[CHOOSE i \in 1..26 : Upper[i] = c]]

\* str.lower() on one character
LowerChar(c) == IF c \in UpperSet THEN ToLower[c] ELSE c

\* str.lower()
LowerStr(s) == [i \in 1..Len(s) |-> LowerChar(s[i])]

\* what str.split() and the regex class \s treat as whitespace
IsSpace(c) == c \in {" ", "\n", "\t"}

\* the regex class \w
WordChars == Range(Upper) \cup Range(Lower) \cup Range(Digit) \cup {"_"}

IsWordChar(c) == c \in WordChars

\* s[i-1:] starts with p (i is 1-based)
MatchAt(s, i, p) ==
    /\ i >= 1
    /\ i + Len(p) - 1 <= Len(s)
    /\ \A k \in 1..Len(p) : s[i + k - 1] = p[k]

\* the Python test `sub in s`
Contains(sub, s) == \E i \in 1..(Len(s) + 1) : MatchAt(s, i, sub)

\* s.find(p, i-1) + 1: the first position >= i where p occurs, 0 when none
IndexFrom(s, i, p) ==
    IF \E j \in i..Len(s) : MatchAt(s, j, p)
    THEN CHOOSE j \in i..Len(s) :
            MatchAt(s, j, p) /\ \A k \in i..(j - 1) : ~MatchAt(s, k, p)
    ELSE 0

\* s[a-1:b] (1-based, inclusive)
Slice(s, a, b) == IF a > b THEN <<>> ELSE SubSeq(s, a, b)

\* s[:n]
Take(s, n) == IF Len(s) <= n THEN s ELSE SubSeq(s, 1, n)

RECURSIVE SplitFrom(_, _, _, _)
SplitFrom(s, i, cur, acc) ==
    IF i > Len(s)
    THEN IF cur = <<>> THEN acc ELSE Append(acc, cur)
    ELSE IF IsSpace(s[i])
         THEN SplitFrom(s, i + 1, <<>>, IF cur = <<>> THEN acc ELSE Append(acc, cur))
         ELSE SplitFrom(s, i + 1, Append(cur, s[i]), acc)

\* str.split(): the maximal runs of non-whitespace characters
Split(s) == SplitFrom(s, 1, <<>>, <<>>)

RECURSIVE JoinSpace(_)
\* ' '.join(words)
JoinSpace(ws) ==
    IF ws = <<>> THEN <<>>
    ELSE IF Len(ws) = 1 THEN ws[1]
    ELSE ws[1] \o <<" ">> \o JoinSpace(Tail(ws))

RECURSIVE Digits(_)
\* str(n) for n >= 0
Digits(n) == IF n < 10 THEN <<Digit[n + 1]>> ELSE Digits(n \div 10) \o <<Digit[(n % 10) + 1]>>

-----------------------------------------------------------------------------
(* The analyzer's static data (__init__) *)

style_guide_base_url == "https://learn.microsoft.com/en-us/style-guide"

\* self.core_urls, in insertion order
SectionOrder ==
    << "voice_tone", "top_tips", "bias_free", "writing_tips", "welcome", "word_list" >>

Sections == Range(SectionOrder)

core_urls ==
    [ voice_tone   |-> "https://learn.microsoft.com/en-us/style-guide/brand-voice-above-all-simple-human",
      top_tips     |-> "https://learn.microsoft.com/en-us/style-guide/top-10-tips-style-voice",
      bias_free    |-> "https://learn.microsoft.com/en-us/style-guide/bias-free-communication",
      writing_tips |-> "https://learn.microsoft.com/en-us/style-guide/global-communications/writing-tips",
      welcome      |-> "https://learn.microsoft.com/en-us/style-guide/welcome/",
      word_list    |-> "https://learn.microsoft.com/en-us/style-guide/a-z-word-list-term-collections" ]

Urls == {core_urls[s] : s \in Sections}

-----------------------------------------------------------------------------
(* The network: what session.get(url) can answer *)

\* the pages the server may serve
Pages ==
    << \* <title>B</title><p>Bias  tip</p>
       << "<","t","i","t","l","e",">","B","<","/","t","i","t","l","e",">",
          "<","p",">","B","i","a","s"," "," ","t","i","p","<","/","p",">" >>,
       \* <script>x<y</script>Voice<br/>\n<style>p{}</style>
       << "<","s","c","r","i","p","t",">","x","<","y","<","/","s","c","r","i","p","t",">",
          "V","o","i","c","e","<","b","r","/",">","\n",
          "<","s","t","y","l","e",">","p","{","}","<","/","s","t","y","l","e",">" >> >>

Statuses == {200, 404}

Exceptions == { <<"t","i","m","e","o","u","t">> }

\* a response with a status line and a body, or a transport failure / timeout
Responses ==
    [kind : {"response"}, status : {200}, body : DOMAIN Pages]
      \cup [kind : {"response"}, status : Statuses \ {200}, body : {1}]
      \cup [kind : {"exception"}, msg : Exceptions]

-----------------------------------------------------------------------------
(* fetch_web_content: the pure parts *)

DefaultTitle ==
    << "M","i","c","r","o","s","o","f","t"," ","S","t","y","l","e"," ","G","u","i","d","e" >>

TitleOpen  == << "<","t","i","t","l","e",">" >>
TitleClose == << "<","/","t","i","t","l","e",">" >>

\* the end (exclusive) of a match of <title>([^<]+)</title> that starts at i, 0 when none
TitleEndAt(s, i) ==
    IF ~MatchAt(s, i, TitleOpen) THEN 0
    ELSE LET lt == IndexFrom(s, i + Len(TitleOpen), <<"<">>)
         IN  IF lt > i + Len(TitleOpen) /\ MatchAt(s, lt, TitleClose) THEN lt ELSE 0

\* re.search(r'<title>([^<]+)</title>', content), group 1, or the default title
ExtractTitle(s) ==
    IF \E i \in 1..Len(s) : TitleEndAt(s, i) # 0
    THEN LET i == CHOOSE i \in 1..Len(s) :
                    TitleEndAt(s, i) # 0 /\ \A k \in 1..(i - 1) : TitleEndAt(s, k) = 0
         IN  Slice(s, i + Len(TitleOpen), TitleEndAt(s, i) - 1)
    ELSE DefaultTitle

\* the end (inclusive) of a match of <open[^>]*>.*?</close> (DOTALL) that starts at i, 0 when none
BlockEndAt(s, i, open, close) ==
    IF ~MatchAt(s, i, open) THEN 0
    ELSE LET gt == IndexFrom(s, i + Len(open), <<">">>)
         IN  IF gt = 0 THEN 0
             ELSE LET e == IndexFrom(s, gt + 1, close)
                  IN  IF e = 0 THEN 0 ELSE e + Len(close) - 1

RECURSIVE StripBlocksFrom(_, _, _, _)
StripBlocksFrom(s, i, open, close) ==
    IF i > Len(s) THEN <<>>
    ELSE LET e == BlockEndAt(s, i, open, close)
         IN  IF e # 0 THEN StripBlocksFrom(s, e + 1, open, close)
             ELSE <<s[i]>> \o StripBlocksFrom(s, i + 1, open, close)

\* re.sub(r'<open[^>]*>.*?</close>', '', s, flags=re.DOTALL)
StripBlocks(s, open, close) == StripBlocksFrom(s, 1, open, close)

RECURSIVE StripTagsFrom(_, _)
StripTagsFrom(s, i) ==
    IF i > Len(s) THEN <<>>
    ELSE LET gt == IF s[i] = "<" THEN IndexFrom(s, i + 1, <<">">>) ELSE 0
         IN  IF gt >= i + 2 THEN <<" ">> \o StripTagsFrom(s, gt + 1)
             ELSE <<s[i]>> \o StripTagsFrom(s, i + 1)

\* re.sub(r'<[^>]+>', ' ', s)
StripTags(s) == StripTagsFrom(s, 1)

ScriptOpen  == << "<","s","c","r","i","p","t" >>
ScriptClose == << "<","/","s","c","r","i","p","t",">" >>
StyleOpen   == << "<","s","t","y","l","e" >>
StyleClose  == << "<","/","s","t","y","l","e",">" >>

\* the text_content of fetch_web_content
NormalizeContent(s) ==
    JoinSpace(Split(StripTags(
        StripBlocks(StripBlocks(s, ScriptOpen, ScriptClose), StyleOpen, StyleClose))))

\* The size limit of the "content" excerpt.  The source cuts at 2000
\* characters (text_content[:2000]); the limit is scaled down with the pages,
\* so that a page of the model is longer than the excerpt.
ExcerptLimit == 8

\* (mutant) the full text is cut like the excerpt
PageFields_FullTextCut ==
    [ b \in DOMAIN Pages |->
        LET text_content == NormalizeContent(Pages[b])
        IN  [ title        |-> ExtractTitle(Pages[b]),
              content      |-> Take(text_content, ExcerptLimit),
              full_content |-> Take(text_content, ExcerptLimit) ] ]

\* title, content and full_content as lines 92-107 compute them from each page
PageFields ==
    [ b \in DOMAIN Pages |->
        LET text_content == NormalizeContent(Pages[b])
        IN  [ title        |-> ExtractTitle(Pages[b]),
              content      |-> Take(text_content, ExcerptLimit),
              full_content |-> text_content ] ]

\* the result built from a 200 response whose body is page b
SuccessResult(url, b, t) ==
    [ success      |-> TRUE,
      url          |-> url,
      title        |-> PageFields[b].title,
      content      |-> PageFields[b].content,
      full_content |-> PageFields[b].full_content,
      timestamp    |-> t ]

HttpPrefix == << "H","T","T","P"," " >>

\* the result returned for a response whose status is not 200
HttpErrorResult(url, status) ==
    [ success |-> FALSE, error |-> HttpPrefix \o Digits(status), url |-> url ]

\* the result returned by the except branch
ExceptionResult(url, msg) ==
    [ success |-> FALSE, error |-> msg, url |-> url ]

\* (mutant) the status of the response is not looked at
FetchResult_NoStatusCheck(url, resp, t) ==
    IF resp.kind = "exception" THEN ExceptionResult(url, resp.msg)
    ELSE SuccessResult(url, resp.body, t)

\* what fetch_web_content returns when its network read ends with resp at time t
FetchResult(url, resp, t) ==
    IF resp.kind = "exception" THEN ExceptionResult(url, resp.msg)
    ELSE IF resp.status = 200 THEN SuccessResult(url, resp.body, t)
    ELSE HttpErrorResult(url, resp.status)

\* (mutant) an entry counts as cached only while it is fresh
Cached_UnlessStale(cache, url) == url \in DOMAIN cache /\ cache[url].timestamp = now

\* `url in self.content_cache`
Cached(cache, url) == url \in DOMAIN cache

\* (mutant) an entry already present is kept: first write wins
CachePut_KeepFirst(cache, url, result) ==
    IF url \in DOMAIN cache THEN cache
    ELSE [u \in DOMAIN cache \cup {url} |-> IF u = url THEN result ELSE cache[u]]

\* self.content_cache[url] = result
CachePut(cache, url, result) ==
    [u \in DOMAIN cache \cup {url} |-> IF u = url THEN result ELSE cache[u]]

\* (mutant) whatever the read returned is stored
CacheAfter_StoreFailures(cache, url, result) == CachePut(cache, url, result)

\* the cache after a network read of url returned result
CacheAfter(cache, url, result) ==
    IF result.success THEN CachePut(cache, url, result) ELSE cache

\* a bare function with no keys: {} in Python
EmptyDict == [u \in {} |-> u]

Idle == [op |-> "idle"]
None == [none |-> TRUE]

\* session.get(url): one more network read of url is in flight
IssueGet(p, url) == [p EXCEPT ![url] = @ + 1]

\* the end of `async with session.get(url)`
EndGet(p, url) == [p EXCEPT ![url] = @ - 1]

\* The record of a return of fetch_web_content: the url asked for, the mapping
\* returned, the network outcome that produced it (None on a cache hit), and
\* whether the cache already held the url when the call returned.  seq
\* alternates, so that two equal returns in a row are two steps.
Return(url, result, resp, replaced) ==
    [ seq      |-> IF returned = None THEN 0 ELSE 1 - returned.seq,
      url      |-> url,
      result   |-> result,
      resp     |-> resp,
      replaced |-> replaced ]

-----------------------------------------------------------------------------
(* fetch_web_content called directly *)

\* the urls the direct callers ask for
FetchUrls == {core_urls["voice_tone"], core_urls["bias_free"]}

\* lines 80-83: the url is cached, the call returns at once
FetchHit(t, url) ==
    /\ task[t] = Idle
    /\ Cached(content_cache, url)
    /\ returned' = Return(url, content_cache[url], None, FALSE)
    /\ UNCHANGED <<content_cache, session, now, pending, task, response>>

\* lines 85-87: the url is not cached, the call issues a GET and suspends
FetchMiss(t, url) ==
    /\ task[t] = Idle
    /\ ~Cached(content_cache, url)
    /\ session' = TRUE
    /\ pending' = IssueGet(pending, url)
    /\ task' = [task EXCEPT ![t] = [op |-> "fetch", url |-> url]]
    /\ UNCHANGED <<content_cache, now, returned, response>>

\* lines 88-127: the network read ends, the call returns
FetchReturn(t, resp) ==
    /\ task[t].op = "fetch"
    /\ LET url    == task[t].url
           result == FetchResult(url, resp, now)
       IN  /\ content_cache' = CacheAfter(content_cache, url, result)
           /\ pending' = EndGet(pending, url)
           /\ returned' = Return(url, result, resp, Cached(content_cache, url))
    /\ task' = [task EXCEPT ![t] = Idle]
    /\ UNCHANGED <<session, now, response>>

\* time passes on the event loop's clock
Tick ==
    /\ now < MaxTime
    /\ now' = now + 1
    /\ UNCHANGED <<content_cache, session, pending, task, returned, response>>

Init ==
    /\ content_cache = EmptyDict
    /\ session = FALSE
    /\ now = 0
    /\ pending = [u \in Urls |-> 0]
    /\ task = [t \in TaskIds |-> Idle]
    /\ returned = None
    /\ response = None

NextFetch ==
    \/ \E t \in TaskIds, url \in FetchUrls : FetchHit(t, url)
    \/ \E t \in TaskIds, url \in FetchUrls : FetchMiss(t, url)
    \/ \E t \in TaskIds, resp \in Responses : FetchReturn(t, resp)
    \/ Tick

\* concurrent direct callers of fetch_web_content
SpecFetch == Init /\ [][NextFetch]_vars

-----------------------------------------------------------------------------
(* search_style_guide_live: the pure parts *)

\* the section identifiers as Python strings
SectionName ==
    [ voice_tone   |-> << "v","o","i","c","e","_","t","o","n","e" >>,
      top_tips     |-> << "t","o","p","_","t","i","p","s" >>,
      bias_free    |-> << "b","i","a","s","_","f","r","e","e" >>,
      writing_tips |-> << "w","r","i","t","i","n","g","_","t","i","p","s" >>,
      welcome      |-> << "w","e","l","c","o","m","e" >>,
      word_list    |-> << "w","o","r","d","_","l","i","s","t" >> ]

\* the characters of the model in code point order
CodePointOrder == Digit \o Upper \o <<"_">> \o Lower

CodePoint ==
    [c \in Range(CodePointOrder) |-> CHOOSE i \in 1..Len(CodePointOrder) : CodePointOrder[i] = c]

\* ord(c), up to an order-preserving renumbering
CharCode(c) == CodePoint[c]

\* a < b on Python strings
StrLess(a, b) ==
    \/ \E k \in 1..Len(a) :
          /\ k <= Len(b)
          /\ \A j \in 1..(k - 1) : a[j] = b[j]
          /\ CharCode(a[k]) < CharCode(b[k])
    \/ /\ Len(a) < Len(b)
       /\ \A j \in 1..Len(a) : a[j] = b[j]

\* search_terms = query.lower().split()
SearchTerms(query) == Split(LowerStr(query))

RECURSIVE ScoreFrom(_, _, _)
ScoreFrom(terms, content, i) ==
    IF i > Len(terms) THEN 0
    ELSE (IF Contains(terms[i], content) THEN 1 ELSE 0) + ScoreFrom(terms, content, i + 1)

\* relevance_score = sum(1 for term in search_terms if term in content)
RelevanceScore(terms, content) == ScoreFrom(terms, content, 1)

\* (mutant) the threshold is half the number of terms rounded up
Relevance_RoundedUp(score, terms) ==
    IF score >= (Len(terms) + 1) \div 2 THEN "high" ELSE "medium"

\* "high" if relevance_score >= len(search_terms) // 2 else "medium"
Relevance(score, terms) == IF score >= Len(terms) \div 2 THEN "high" ELSE "medium"

\* the body of the loop over core_urls, after the fetch of the section returned
AddResult(results, section, content_result, terms) ==
    IF ~content_result.success THEN results
    ELSE LET content == LowerStr(content_result.full_content)
             score   == RelevanceScore(terms, content)
         IN  IF score > 0
             THEN Append(results,
                         [ section         |-> section,
                           title           |-> content_result.title,
                           url             |-> core_urls[section],
                           relevance       |-> Relevance(score, terms),
                           content_preview |-> content_result.content,
                           official        |-> TRUE ])
             ELSE results

\* (mutant) the sort key is the relevance alone
KeyLess_RelevanceOnly(x, y) == x.relevance # "high" /\ y.relevance = "high"

\* key(x) < key(y) for key = (x["relevance"] == "high", x["section"])
KeyLess(x, y) ==
    \/ x.relevance # "high" /\ y.relevance = "high"
    \/ /\ (x.relevance = "high") = (y.relevance = "high")
       /\ StrLess(SectionName[x.section], SectionName[y.section])

\* x put into a list sorted by decreasing key, behind the entries whose key
\* is not smaller (a stable sort)
InsertDescending(sorted, x) ==
    LET before == {i \in 1..Len(sorted) : ~KeyLess(sorted[i], x)}
        n      == Cardinality(before)
    IN  SubSeq(sorted, 1, n) \o <<x>> \o SubSeq(sorted, n + 1, Len(sorted))

RECURSIVE SortFrom(_, _, _)
SortFrom(rs, i, sorted) ==
    IF i > Len(rs) THEN sorted ELSE SortFrom(rs, i + 1, InsertDescending(sorted, rs[i]))

\* x put into a list sorted by increasing key
InsertAscending(sorted, x) ==
    LET before == {i \in 1..Len(sorted) : ~KeyLess(x, sorted[i])}
        n      == Cardinality(before)
    IN  SubSeq(sorted, 1, n) \o <<x>> \o SubSeq(sorted, n + 1, Len(sorted))

RECURSIVE SortAscendingFrom(_, _, _)
SortAscendingFrom(rs, i, sorted) ==
    IF i > Len(rs) THEN sorted ELSE SortAscendingFrom(rs, i + 1, InsertAscending(sorted, rs[i]))

\* (mutant) the sort without reverse=True
SortResults_Ascending(rs) == SortAscendingFrom(rs, 1, <<>>)

\* search_results.sort(key=..., reverse=True)
SortResults(rs) == SortFrom(rs, 1, <<>>)

\* the size of the slice search_results[:5]
TopResults == 5

\* The mapping search_style_guide_live returns.  candidates is not part of it:
\* it keeps the sorted search_results the slice was taken from.
SearchResponse(query, search_results, t) ==
    LET sorted == SortResults(search_results)
    IN  [ op          |-> "search",
          query       |-> query,
          results     |-> Take(sorted, TopResults),
          total_found |-> Len(sorted),
          web_enabled |-> TRUE,
          timestamp   |-> t,
          candidates  |-> sorted ]

RECURSIVE SearchLoop(_, _, _, _)
\* The loop over core_urls from the i-th section on, as far as it runs without
\* suspending: a cached section is handled at once, the first section that is
\* not cached stops it (idx), the end of the catalog ends it (idx past the end).
SearchLoop(cache, terms, i, results) ==
    IF i > Len(SectionOrder) THEN [idx |-> i, results |-> results]
    ELSE LET url == core_urls[SectionOrder[i]]
         IN  IF Cached(cache, url)
             THEN SearchLoop(cache, terms, i + 1,
                             AddResult(results, SectionOrder[i], cache[url], terms))
             ELSE [idx |-> i, results |-> results]

-----------------------------------------------------------------------------
(* search_style_guide_live *)

\* the queries the callers ask
Queries ==
    { << >>,
      << "i" >>,
      << "B","i","a","s"," ","t","i","p"," ","v","o","i","c","e"," ","z","z" >>,
      << " ","V","O","I","C","E"," "," ","x","x","\t","z","z"," ","q","q","\n" >>,
      << "t","i","p"," ","t","i","p"," ","z","z"," ","z","z"," ","z","z" >> }

\* the search goes on from the state `run` of its loop: it suspends in the
\* network read of the next section, or sorts and returns
SearchContinue(t, query, terms, run) ==
    IF run.idx > Len(SectionOrder)
    THEN /\ task' = [task EXCEPT ![t] = Idle]
         /\ response' = SearchResponse(query, run.results, now)
         /\ UNCHANGED session
    ELSE /\ task' = [task EXCEPT ![t] =
                        [ op |-> "search", url |-> core_urls[SectionOrder[run.idx]],
                          query |-> query, search_terms |-> terms,
                          idx |-> run.idx, results |-> run.results ]]
         /\ response' = None
         /\ session' = TRUE

\* the loop of the call stopped at run: the call suspends or returns
SearchEntered(t, query, terms, run) ==
    /\ SearchContinue(t, query, terms, run)
    /\ pending' = IF run.idx > Len(SectionOrder) THEN pending
                  ELSE IssueGet(pending, core_urls[SectionOrder[run.idx]])
    /\ returned' = IF run.idx = 1 THEN returned
                   ELSE Return(core_urls[SectionOrder[run.idx - 1]],
                               content_cache[core_urls[SectionOrder[run.idx - 1]]], None, FALSE)

\* lines 250-254: the call with its search_terms enters the loop
SearchStarted(t, query, terms) ==
    SearchEntered(t, query, terms, SearchLoop(content_cache, terms, 1, <<>>))

\* lines 249-255: the call runs up to its first network read (or to its end)
SearchCall(t, query) ==
    /\ task[t] = Idle
    /\ SearchStarted(t, query, SearchTerms(query))
    /\ UNCHANGED <<content_cache, now>>

\* the loop of the suspended search s went on to run after its read of s.url
\* returned result and left the cache as cache
SearchMoved(t, s, resp, result, cache, run) ==
    /\ content_cache' = cache
    /\ SearchContinue(t, s.query, s.search_terms, run)
    /\ pending' = IF run.idx > Len(SectionOrder) THEN EndGet(pending, s.url)
                  ELSE IssueGet(EndGet(pending, s.url), core_urls[SectionOrder[run.idx]])
    /\ returned' = IF run.idx = s.idx + 1
                   THEN Return(s.url, result, resp, Cached(content_cache, s.url))
                   ELSE Return(core_urls[SectionOrder[run.idx - 1]],
                               cache[core_urls[SectionOrder[run.idx - 1]]], None, FALSE)

\* lines 257-269 for the section that was read, then the loop goes on
SearchLanded(t, s, resp, result, cache) ==
    SearchMoved(t, s, resp, result, cache,
                SearchLoop(cache, s.search_terms, s.idx + 1,
                           AddResult(s.results, SectionOrder[s.idx], result, s.search_terms)))

\* fetch_web_content returns result to the search
SearchFetched(t, s, resp, result) ==
    SearchLanded(t, s, resp, result, CacheAfter(content_cache, s.url, result))

\* lines 255-280: a network read of the search ends, the loop goes on
SearchResume(t, resp) ==
    /\ task[t].op = "search"
    /\ SearchFetched(t, task[t], resp, FetchResult(task[t].url, resp, now))
    /\ UNCHANGED now

\* the caller of the search
SearchTask == 1

NextSearch ==
    \/ \E query \in Queries : SearchCall(SearchTask, query)
    \/ \E resp \in Responses : SearchResume(SearchTask, resp)

\* one caller searching again and again
SpecSearch == Init /\ [][NextSearch]_vars

-----------------------------------------------------------------------------
(* analyze_content: the rule set (self.patterns, self.terminology_standards) *)

\* the alternatives of self.patterns["contractions"], in order
ContractionAlts ==
    << << "i","t","'","s" >>, << "y","o","u","'","r","e" >>, << "w","e","'","r","e" >>,
       << "d","o","n","'","t" >>, << "c","a","n","'","t" >>, << "w","o","n","'","t" >>,
       << "l","e","t","'","s" >>, << "y","o","u","'","l","l" >>, << "w","e","'","l","l" >> >>

\* the alternatives of the auxiliary in self.patterns["passive_voice"], in order
PassiveAuxAlts ==
    << << "i","s" >>, << "a","r","e" >>, << "w","a","s" >>, << "w","e","r","e" >>,
       << "b","e","e","n" >>, << "b","e" >> >>

\* the alternatives of self.patterns["non_inclusive_terms"], in order
NonInclusiveAlts ==
    << << "g","u","y","s" >>, << "m","a","n","k","i","n","d" >>,
       << "b","l","a","c","k","l","i","s","t" >>, << "w","h","i","t","e","l","i","s","t" >>,
       << "m","a","s","t","e","r" >>, << "s","l","a","v","e" >>, << "c","r","a","z","y" >>,
       << "i","n","s","a","n","e" >>, << "l","a","m","e" >> >>

\* the alternative of self.patterns["you_addressing"]
YouAlts == << << "y","o","u" >> >>

\* self.terminology_standards, in insertion order
terminology_standards ==
    << [ term |-> "AI", correct |-> "AI", note |-> "No periods",
         avoid |-> << << "A",".","I","." >> >> ],
       [ term |-> "email", correct |-> "email", note |-> "One word",
         avoid |-> << << "e","-","m","a","i","l" >> >> ],
       [ term |-> "website", correct |-> "website", note |-> "One word",
         avoid |-> << << "w","e","b"," ","s","i","t","e" >> >> ],
       [ term |-> "sign_in", correct |-> "sign in (verb), sign-in (noun)",
         note |-> "Microsoft standard",
         avoid |-> << << "l","o","g","i","n" >>, << "l","o","g"," ","i","n" >> >> ],
       [ term |-> "setup", correct |-> "set up (verb), setup (noun)",
         note |-> "Context dependent",
         avoid |-> << << "s","e","t","u","p"," ","(","v","e","r","b",")" >> >> ],
       [ term |-> "wifi", correct |-> "Wi-Fi", note |-> "Hyphenated, both caps",
         avoid |-> << << "W","i","F","i" >>, << "w","i","f","i" >> >> ] >>

-----------------------------------------------------------------------------
(* analyze_content: the regular expressions *)

\* \b between s[p] and s[p+1] (p = 0 is the start, p = Len(s) the end)
WordBoundary(s, p) ==
    (p >= 1 /\ IsWordChar(s[p])) # (p + 1 <= Len(s) /\ IsWordChar(s[p + 1]))

\* the alternatives that match \b(alt)\b at position i of the lower-cased text
AltsAt(low, i, alts) ==
    {k \in 1..Len(alts) :
        /\ MatchAt(low, i, alts[k])
        /\ WordBoundary(low, i + Len(alts[k]) - 1)}

\* the length matched by \b(a1|a2|...)\b at position i, 0 when it does not match:
\* the first alternative that matches is taken
AltLenAt(low, i, alts) ==
    IF WordBoundary(low, i - 1) /\ AltsAt(low, i, alts) # {}
    THEN LET k == CHOOSE k \in AltsAt(low, i, alts) : \A j \in AltsAt(low, i, alts) : k <= j
         IN  Len(alts[k])
    ELSE 0

\* the end of the maximal run of characters in `class` that starts at i (i - 1 when empty)
RECURSIVE RunEnd(_, _, _)
RunEnd(s, i, class) ==
    IF i <= Len(s) /\ s[i] \in class THEN RunEnd(s, i + 1, class) ELSE i - 1

Spaces == {" ", "\n", "\t"}

EdSuffix == << "e","d" >>

\* the length matched by \b(is|are|was|were|been|be)\s+\w*ed\b at position i, 0 when
\* it does not match: the auxiliary, a run of whitespace, and a whole run of
\* word characters that ends in "ed"
PassiveLenAt(low, i) ==
    LET fits(k) ==
            LET sp == i + Len(PassiveAuxAlts[k])
                w  == RunEnd(low, sp, Spaces) + 1
                e  == RunEnd(low, w, WordChars)
            IN  IF /\ MatchAt(low, i, PassiveAuxAlts[k])
                   /\ w > sp
                   /\ e >= w + 1
                   /\ MatchAt(low, e - 1, EdSuffix)
                THEN e - i + 1 ELSE 0
        ks == {k \in 1..Len(PassiveAuxAlts) : fits(k) # 0}
    IN  IF WordBoundary(low, i - 1) /\ ks # {}
        THEN fits(CHOOSE k \in ks : \A j \in ks : k <= j)
        ELSE 0

RECURSIVE FindAllAltsFrom(_, _, _, _)
FindAllAltsFrom(s, low, i, alts) ==
    IF i > Len(s) THEN <<>>
    ELSE LET n == AltLenAt(low, i, alts)
         IN  IF n > 0
             THEN << [start |-> i - 1, text |-> SubSeq(s, i, i + n - 1)] >>
                      \o FindAllAltsFrom(s, low, i + n, alts)
             ELSE FindAllAltsFrom(s, low, i + 1, alts)

\* re.finditer(r"\b(a1|a2|...)\b", s, re.IGNORECASE): the matches from left to
\* right, each with match.start() and match.group()
FindAllAlts(s, alts) == FindAllAltsFrom(s, LowerStr(s), 1, alts)

RECURSIVE FindAllPassiveFrom(_, _, _)
FindAllPassiveFrom(s, low, i) ==
    IF i > Len(s) THEN <<>>
    ELSE LET n == PassiveLenAt(low, i)
         IN  IF n > 0
             THEN << [start |-> i - 1, text |-> SubSeq(s, i, i + n - 1)] >>
                      \o FindAllPassiveFrom(s, low, i + n)
             ELSE FindAllPassiveFrom(s, low, i + 1)

\* re.finditer(self.patterns["passive_voice"], s, re.IGNORECASE)
FindAllPassive(s) == FindAllPassiveFrom(s, LowerStr(s), 1)

SentenceEnds == {".", "!", "?"}

RECURSIVE SentencesFrom(_, _, _, _)
SentencesFrom(s, i, blank, n) ==
    IF i > Len(s) THEN (IF blank THEN n ELSE n + 1)
    ELSE IF s[i] \in SentenceEnds
         THEN SentencesFrom(s, i + 1, TRUE, IF blank THEN n ELSE n + 1)
         ELSE SentencesFrom(s, i + 1, blank /\ IsSpace(s[i]), n)

\* len([x for x in re.split(r'[.!?]+', s) if x.strip()])
SentenceCount(s) == SentencesFrom(s, 1, TRUE, 0)

\* (mutant) the quotient is cut, not rounded
RoundTenths_Cut(a, b) == (10 * a) \div b

\* round(a / b, 1) in tenths, for b > 0: to the nearest tenth, a tie to the even
\* tenth (a tie is exact in binary floating point: b is then a multiple of 4)
RoundTenths(a, b) ==
    LET q == (10 * a) \div b
        r == (10 * a) % b
    IN  IF 2 * r < b THEN q
        ELSE IF 2 * r > b THEN q + 1
        ELSE IF q % 2 = 0 THEN q ELSE q + 1

Max(a, b) == IF a >= b THEN a ELSE b

-----------------------------------------------------------------------------
(* analyze_content: the local pattern analysis (lines 132-202).  A formatted     *)
(* message is kept as its template with the values put into it.                  *)

\* lines 136-140; avg_words_per_sentence is kept in tenths
Statistics(text) ==
    LET word_count     == Len(Split(text))
        sentence_count == SentenceCount(text)
    IN  [ word_count             |-> word_count,
          sentence_count         |-> sentence_count,
          avg_words_per_sentence |-> RoundTenths(word_count, Max(1, sentence_count)) ]

\* line 143
ContractionCount(text) == Len(FindAllAlts(text, ContractionAlts))

\* line 144
YouCount(text) == Len(FindAllAlts(text, YouAlts))

ContractionSuggestion(n) ==
    [ type |-> "positive", principle |-> "warm_and_relaxed",
      message |-> [ fmt |-> "Good use of contractions ({n} found) - supports warm, natural tone",
                    n   |-> n ] ]

YouSuggestion(n) ==
    [ type |-> "positive", principle |-> "ready_to_help",
      message |-> [ fmt |-> "Good use of 'you' ({n} instances) - directly engages readers",
                    n   |-> n ] ]

VoiceToneIssue ==
    [ type |-> "voice_tone", severity |-> "info", principle |-> "warm_and_relaxed",
      message |-> [ fmt |-> "Consider using contractions (it's, you're, we'll) for a more natural tone" ] ]

\* lines 146-165, the suggestions
Suggestions(text) ==
    (IF ContractionCount(text) > 0
     THEN << ContractionSuggestion(ContractionCount(text)) >> ELSE <<>>)
    \o (IF YouCount(text) > 0 THEN << YouSuggestion(YouCount(text)) >> ELSE <<>>)

\* (mutant) the issue is added whatever the number of contractions
VoiceIssues_Always(text) == << VoiceToneIssue >>

\* lines 146-158, the issues
VoiceIssues(text) == IF ContractionCount(text) > 0 THEN <<>> ELSE << VoiceToneIssue >>

GrammarIssue(m) ==
    [ type |-> "grammar", severity |-> "warning", position |-> m.start, text |-> m.text,
      message |-> [ fmt |-> "Consider using active voice for clarity" ],
      principle |-> "crisp_and_clear" ]

\* lines 169-178
GrammarIssues(text) ==
    LET ms == FindAllPassive(text) IN [i \in 1..Len(ms) |-> GrammarIssue(ms[i])]

TerminologyIssue(standard, avoid_term) ==
    [ type |-> "terminology", severity |-> "warning", text |-> avoid_term,
      message |-> [ fmt     |-> "Use '{correct}' instead of '{avoid_term}'",
                    correct |-> standard.correct, avoid_term |-> avoid_term ],
      note |-> standard.note ]

RECURSIVE AvoidIssuesFrom(_, _, _)
AvoidIssuesFrom(low, standard, j) ==
    IF j > Len(standard.avoid) THEN <<>>
    ELSE (IF Contains(LowerStr(standard.avoid[j]), low)
          THEN << TerminologyIssue(standard, standard.avoid[j]) >> ELSE <<>>)
         \o AvoidIssuesFrom(low, standard, j + 1)

RECURSIVE TerminologyIssuesFrom(_, _)
TerminologyIssuesFrom(low, i) ==
    IF i > Len(terminology_standards) THEN <<>>
    ELSE AvoidIssuesFrom(low, terminology_standards[i], 1)
         \o TerminologyIssuesFrom(low, i + 1)

\* lines 181-190
TerminologyIssues(text) == TerminologyIssuesFrom(LowerStr(text), 1)

\* (mutant) a non-inclusive term is a warning
AccessibilityIssue_Warning(m) ==
    [ type |-> "accessibility", severity |-> "warning", position |-> m.start, text |-> m.text,
      message |-> [ fmt  |-> "'{text}' may not be inclusive - consider alternatives",
                    text |-> m.text ],
      principle |-> "bias_free_communication" ]

\* lines 195-202
AccessibilityIssue(m) ==
    [ type |-> "accessibility", severity |-> "error", position |-> m.start, text |-> m.text,
      message |-> [ fmt  |-> "'{text}' may not be inclusive - consider alternatives",
                    text |-> m.text ],
      principle |-> "bias_free_communication" ]

\* lines 193-202
AccessibilityIssues(text) ==
    LET ms == FindAllAlts(text, NonInclusiveAlts)
    IN  [i \in 1..Len(ms) |-> AccessibilityIssue(ms[i])]

\* (mutant) no pass is restricted to its analysis types
PassEnabled_Always(analysis_type, pass) == TRUE

\* `analysis_type in ["comprehensive", pass]`
PassEnabled(analysis_type, pass) == analysis_type \in {"comprehensive", pass}

\* lines 132-202: the issues list, in the order the passes append to it
Issues(text, analysis_type) ==
    VoiceIssues(text)
    \o (IF PassEnabled(analysis_type, "grammar") THEN GrammarIssues(text) ELSE <<>>)
    \o (IF PassEnabled(analysis_type, "terminology") THEN TerminologyIssues(text) ELSE <<>>)
    \o (IF PassEnabled(analysis_type, "accessibility") THEN AccessibilityIssues(text) ELSE <<>>)

\* (mutant) one issue is still excellent
Status_OneIssueAllowed(total_issues) ==
    IF total_issues <= 1 THEN [mark |-> "white_check_mark", label |-> "Excellent"]
    ELSE IF total_issues <= 2 THEN [mark |-> "warning", label |-> "Good"]
    ELSE [mark |-> "x", label |-> "Needs Work"]

\* (mutant) the second threshold is off by one
Status_OffByOne(total_issues) ==
    IF total_issues = 0 THEN [mark |-> "white_check_mark", label |-> "Excellent"]
    ELSE IF total_issues < 2 THEN [mark |-> "warning", label |-> "Good"]
    ELSE [mark |-> "x", label |-> "Needs Work"]

\* lines 218-227: the status string, "<emoji> <label>"; mark names the emoji
Status(total_issues) ==
    IF total_issues = 0 THEN [mark |-> "white_check_mark", label |-> "Excellent"]
    ELSE IF total_issues <= 2 THEN [mark |-> "warning", label |-> "Good"]
    ELSE [mark |-> "x", label |-> "Needs Work"]

\* lines 218-227: the assessment that goes with the status
Assessment(total_issues) ==
    IF total_issues = 0 THEN "Content follows Microsoft Style Guide principles well"
    ELSE IF total_issues <= 2 THEN "Minor style improvements suggested"
    ELSE "Multiple style issues detected"

-----------------------------------------------------------------------------
(* get_official_guidance and the live guidance of analyze_content *)

\* the issue types as Python strings
TypeName ==
    [ voice_tone    |-> << "v","o","i","c","e","_","t","o","n","e" >>,
      grammar       |-> << "g","r","a","m","m","a","r" >>,
      terminology   |-> << "t","e","r","m","i","n","o","l","o","g","y" >>,
      accessibility |-> << "a","c","c","e","s","s","i","b","i","l","i","t","y" >> ]

\* topic_mappings, in insertion order
topic_mappings ==
    << [key |-> << "v","o","i","c","e" >>,                         section |-> "voice_tone"],
       [key |-> << "t","o","n","e" >>,                             section |-> "voice_tone"],
       [key |-> << "t","i","p","s" >>,                             section |-> "top_tips"],
       [key |-> << "b","i","a","s" >>,                             section |-> "bias_free"],
       [key |-> << "i","n","c","l","u","s","i","v","e" >>,         section |-> "bias_free"],
       [key |-> << "w","r","i","t","i","n","g" >>,                 section |-> "writing_tips"],
       [key |-> << "g","r","a","m","m","a","r" >>,                 section |-> "writing_tips"],
       [key |-> << "w","o","r","d","s" >>,                         section |-> "word_list"],
       [key |-> << "t","e","r","m","i","n","o","l","o","g","y" >>, section |-> "word_list"] >>

RECURSIVE MappedSectionsFrom(_, _)
MappedSectionsFrom(topic_lower, i) ==
    IF i > Len(topic_mappings) THEN <<>>
    ELSE (IF Contains(topic_mappings[i].key, topic_lower)
          THEN << topic_mappings[i].section >> ELSE <<>>)
         \o MappedSectionsFrom(topic_lower, i + 1)

\* the number of sections get_official_guidance consults
GuidanceSections == 3

\* lines 307-320: relevant_sections[:3] for each issue type
RelevantSections ==
    [ topic \in DOMAIN TypeName |->
        LET mapped == MappedSectionsFrom(LowerStr(TypeName[topic]), 1)
        IN  Take(IF mapped = <<>> THEN SectionOrder ELSE mapped, GuidanceSections) ]

\* (mutant) the success flag of the fetch is not looked at
AddGuidance_IgnoreSuccess(guidance_results, section, content_result) ==
    Append(guidance_results,
           [ section  |-> section,
             title    |-> IF content_result.success THEN content_result.title ELSE DefaultTitle,
             url      |-> core_urls[section],
             content  |-> IF content_result.success THEN content_result.content
                          ELSE content_result.error,
             official |-> TRUE ])

\* lines 325-332: the body of the loop over relevant_sections, after the fetch
AddGuidance(guidance_results, section, content_result) ==
    IF content_result.success
    THEN Append(guidance_results,
                [ section  |-> section,
                  title    |-> content_result.title,
                  url      |-> core_urls[section],
                  content  |-> content_result.content,
                  official |-> TRUE ])
    ELSE guidance_results

\* (mutant) a category without guidance discards the guidance gathered so far
AttachGuidance_ResetOnFailure(live_guidance, issue_type, guidance_results) ==
    IF guidance_results = <<>> THEN EmptyDict
    ELSE [k \in DOMAIN live_guidance \cup {issue_type} |->
            IF k = issue_type THEN guidance_results[1] ELSE live_guidance[k]]

\* lines 212-213: live_guidance[issue_type] = guidance["guidance"][0], if any
AttachGuidance(live_guidance, issue_type, guidance_results) ==
    IF guidance_results = <<>> THEN live_guidance
    ELSE [k \in DOMAIN live_guidance \cup {issue_type} |->
            IF k = issue_type THEN guidance_results[1] ELSE live_guidance[k]]

\* no url
NoUrl == ""

\* the number of issue types guidance is asked for: issue_types[:2]
GuidanceTopics == 2

\* one call of fetch_web_content by get_official_guidance and what it returned;
\* the calls of one analysis are kept in lookups, which the code does not have
Lookup(topic, section, content_result) ==
    [ topic   |-> topic,
      section |-> section,
      success |-> content_result.success,
      result  |-> IF content_result.success THEN content_result ELSE None ]

RECURSIVE GuidanceLoop(_, _, _, _, _, _, _, _)
\* The loop of lines 210-213 with the loop of get_official_guidance inside it,
\* from the si-th section of the ti-th topic on, as far as it runs without
\* suspending.  done tells that it ran to its end; last is the url of the last
\* section it took from the cache (NoUrl when it took none).
GuidanceLoop(cache, topics, ti, si, guidance_results, live_guidance, last, lookups) ==
    IF ti > Len(topics)
    THEN [ done |-> TRUE, ti |-> ti, si |-> si, guidance_results |-> guidance_results,
           live_guidance |-> live_guidance, last |-> last, lookups |-> lookups ]
    ELSE LET sections == RelevantSections[topics[ti]]
         IN  IF si > Len(sections)
             THEN GuidanceLoop(cache, topics, ti + 1, 1, <<>>,
                               AttachGuidance(live_guidance, topics[ti], guidance_results),
                               last, lookups)
             ELSE LET url == core_urls[sections[si]]
                  IN  IF Cached(cache, url)
                      THEN GuidanceLoop(cache, topics, ti, si + 1,
                                        AddGuidance(guidance_results, sections[si], cache[url]),
                                        live_guidance, url,
                                        Append(lookups, Lookup(topics[ti], sections[si], cache[url])))
                      ELSE [ done |-> FALSE, ti |-> ti, si |-> si,
                             guidance_results |-> guidance_results,
                             live_guidance |-> live_guidance, last |-> last,
                             lookups |-> lookups ]

\* the url the guidance loop is about to read
LoopUrl(topics, loop) == core_urls[RelevantSections[topics[loop.ti]][loop.si]]

-----------------------------------------------------------------------------
(* analyze_content *)

\* the words the analyzed texts are made of
Vocabulary ==
    << << "I","t","'","s" >>,
       << "w","a","s" >>,
       << "f","i","x","e","d","." >>,
       << "g","u","y","s" >>,
       << "l","o","g","i","n" >>,
       << "y","o","u" >> >>

\* texts with sentences of several words and runs of ends of sentence:
\* "Hello world. Hi." and "Hi.you was!?ok"
ExampleTexts ==
    { << "H","e","l","l","o"," ","w","o","r","l","d","."," ","H","i","." >>,
      << "H","i",".","y","o","u"," ","w","a","s","!","?","o","k" >> }

\* the texts the callers ask about: up to MaxWords words separated by a space,
\* and the example texts
Texts ==
    { JoinSpace([i \in DOMAIN ws |-> Vocabulary[ws[i]]]) :
        ws \in UNION {[1..n -> 1..Len(Vocabulary)] : n \in 0..MaxWords} }
    \cup ExampleTexts

AnalysisTypes == {"comprehensive", "voice_tone", "grammar", "terminology", "accessibility"}

\* set(issue["type"] for issue in issues)
IssueTypeSet(issues) == {issues[i].type : i \in 1..Len(issues)}

\* list(set(...)): a set of strings is iterated in the order of the hashes of
\* its elements, which differs from one process to the next: any order
SetOrders(issues) ==
    LET S == IssueTypeSet(issues)
    IN  { f \in [1..Cardinality(S) -> S] :
            \A i, j \in 1..Cardinality(S) : i # j => f[i] # f[j] }

\* (mutant) the issues that got guidance are listed in reverse
AnalysisResponse_GuidedReversed(text, analysis_type, statistics, issues, suggestions, issue_types, live_guidance, lookups, t) ==
    LET listed == IF DOMAIN live_guidance = {} THEN issues
                  ELSE [i \in 1..Len(issues) |-> issues[Len(issues) + 1 - i]]
    IN  [ op              |-> "analyze",
          status          |-> Status(Len(listed)),
          assessment      |-> Assessment(Len(listed)),
          statistics      |-> statistics,
          issues          |-> listed,
          suggestions     |-> suggestions,
          total_issues    |-> Len(listed),
          analysis_type   |-> analysis_type,
          style_guide_url |-> style_guide_base_url,
          live_guidance   |-> live_guidance,
          web_enabled     |-> TRUE,
          timestamp       |-> t,
          text            |-> text,
          issue_types     |-> issue_types,
          lookups         |-> lookups ]

\* The mapping analyze_content returns.  text, issue_types and lookups are not
\* part of it: they keep the argument of the call, the local list(set(...))[:2]
\* and the fetches of the guidance.
AnalysisResponse(text, analysis_type, statistics, issues, suggestions, issue_types, live_guidance, lookups, t) ==
    [ op              |-> "analyze",
      status          |-> Status(Len(issues)),
      assessment      |-> Assessment(Len(issues)),
      statistics      |-> statistics,
      issues          |-> issues,
      suggestions     |-> suggestions,
      total_issues    |-> Len(issues),
      analysis_type   |-> analysis_type,
      style_guide_url |-> style_guide_base_url,
      live_guidance   |-> live_guidance,
      web_enabled     |-> TRUE,
      timestamp       |-> t,
      text            |-> text,
      issue_types     |-> issue_types,
      lookups         |-> lookups ]

\* the call goes on from the state `loop` of its guidance loop: it suspends in
\* the network read of the next section, or assembles its result and returns
AnalyzeContinue(t, a, loop) ==
    IF loop.done
    THEN /\ task' = [task EXCEPT ![t] = Idle]
         /\ response' = AnalysisResponse(a.text, a.analysis_type, a.statistics, a.issues,
                                         a.suggestions, a.issue_types, loop.live_guidance,
                                         loop.lookups, now)
         /\ UNCHANGED session
    ELSE /\ task' = [task EXCEPT ![t] =
                        [ op |-> "analyze", url |-> LoopUrl(a.issue_types, loop),
                          text |-> a.text, analysis_type |-> a.analysis_type,
                          statistics |-> a.statistics, issues |-> a.issues,
                          suggestions |-> a.suggestions, issue_types |-> a.issue_types,
                          ti |-> loop.ti, si |-> loop.si,
                          guidance_results |-> loop.guidance_results,
                          live_guidance |-> loop.live_guidance,
                          lookups |-> loop.lookups ]]
         /\ response' = None
         /\ session' = TRUE

\* the guidance loop of the call a stopped at loop: the call suspends or returns
AnalyzeEntered(t, a, loop) ==
    /\ AnalyzeContinue(t, a, loop)
    /\ pending' = IF loop.done THEN pending
                  ELSE IssueGet(pending, LoopUrl(a.issue_types, loop))
    /\ returned' = IF loop.last = NoUrl THEN returned
                   ELSE Return(loop.last, content_cache[loop.last], None, FALSE)

\* lines 204-210: the call a, its local analysis done, enters the guidance loop
AnalyzeStarted(t, a) ==
    AnalyzeEntered(t, a, GuidanceLoop(content_cache, a.issue_types, 1, 1, <<>>, EmptyDict,
                                      NoUrl, <<>>))

\* lines 209-210: the issue types guidance is asked for, in the order of the set
AnalyzeIssues(t, text, analysis_type, issues) ==
    \E order \in SetOrders(issues) :
        AnalyzeStarted(t, [ text |-> text, analysis_type |-> analysis_type,
                            statistics |-> Statistics(text), issues |-> issues,
                            suggestions |-> Suggestions(text),
                            issue_types |-> Take(order, GuidanceTopics) ])

\* lines 129-211: the call runs up to its first network read (or to its end)
AnalyzeCall(t, text, analysis_type) ==
    /\ task[t] = Idle
    /\ response = None
    /\ AnalyzeIssues(t, text, analysis_type, Issues(text, analysis_type))
    /\ UNCHANGED <<content_cache, now>>

\* the guidance loop of the suspended call a went on to loop after its read of
\* a.url returned result and left the cache as cache
AnalyzeMoved(t, a, resp, result, cache, loop) ==
    /\ content_cache' = cache
    /\ AnalyzeContinue(t, a, loop)
    /\ pending' = IF loop.done THEN EndGet(pending, a.url)
                  ELSE IssueGet(EndGet(pending, a.url), LoopUrl(a.issue_types, loop))
    /\ returned' = IF loop.last = NoUrl
                   THEN Return(a.url, result, resp, Cached(content_cache, a.url))
                   ELSE Return(loop.last, cache[loop.last], None, FALSE)

\* lines 325-332 for the section that was read, then the loops go on
AnalyzeLanded(t, a, resp, section, result, cache) ==
    AnalyzeMoved(t, a, resp, result, cache,
                 GuidanceLoop(cache, a.issue_types, a.ti, a.si + 1,
                              AddGuidance(a.guidance_results, section, result),
                              a.live_guidance, NoUrl,
                              Append(a.lookups, Lookup(a.issue_types[a.ti], section, result))))

\* fetch_web_content returns result to get_official_guidance
AnalyzeFetched(t, a, resp, result) ==
    AnalyzeLanded(t, a, resp, RelevantSections[a.issue_types[a.ti]][a.si], result,
                  CacheAfter(content_cache, a.url, result))

\* lines 211-245: a network read of the guidance ends, the loops go on
AnalyzeResume(t, resp) ==
    /\ task[t].op = "analyze"
    /\ AnalyzeFetched(t, task[t], resp, FetchResult(task[t].url, resp, now))
    /\ UNCHANGED now

\* every section fetched at time 0 with the first page as its answer
WarmCache == [u \in Urls |-> SuccessResult(u, 1, 0)]

\* the analyzer as constructed, or after it has fetched every section
InitAnalyze ==
    /\ content_cache \in {EmptyDict, WarmCache}
    /\ session = (content_cache # EmptyDict)
    /\ now = 0
    /\ pending = [u \in Urls |-> 0]
    /\ task = [t \in TaskIds |-> Idle]
    /\ returned = None
    /\ response = None

\* the caller of the analysis
AnalyzeTask == 1

NextAnalyze ==
    \/ \E text \in Texts, analysis_type \in AnalysisTypes :
          AnalyzeCall(AnalyzeTask, text, analysis_type)
    \/ \E resp \in Responses : AnalyzeResume(AnalyzeTask, resp)

\* one caller, one call of analyze_content
SpecAnalyze == InitAnalyze /\ [][NextAnalyze]_vars

-----------------------------------------------------------------------------
(* suggest_improvements *)

\* the texts of the messages that are searched for a word, spelled out
Spelled ==
    [ fmt \in {"Consider using active voice for clarity"} |->
        << "C","o","n","s","i","d","e","r"," ","u","s","i","n","g"," ",
           "a","c","t","i","v","e"," ","v","o","i","c","e"," ",
           "f","o","r"," ","c","l","a","r","i","t","y" >> ]

\* "passive" in issue["message"], asked of grammar issues only
PassiveInMessage(issue) ==
    Contains(<< "p","a","s","s","i","v","e" >>, Spelled[issue.message.fmt])

\* issue.get('text', '')
IssueText(issue) == IF "text" \in DOMAIN issue THEN issue.text ELSE <<>>

\* _get_improvement_suggestion
ImprovementSuggestion(issue) ==
    IF issue.type = "voice_tone"
    THEN [fmt |-> "Use more contractions and direct language to sound natural and friendly"]
    ELSE IF issue.type = "grammar" /\ PassiveInMessage(issue)
    THEN [fmt |-> "Change '{text}' to active voice", text |-> IssueText(issue)]
    ELSE IF issue.type = "terminology"
    THEN [fmt |-> "Replace with Microsoft-approved term as noted"]
    ELSE IF issue.type = "accessibility"
    THEN [fmt |-> "Use inclusive alternative for '{text}'", text |-> IssueText(issue)]
    ELSE [fmt |-> "Follow Microsoft Style Guide recommendations"]

\* lines 414-419: the improvement built for a retained issue
Improvement(issue) ==
    [ issue      |-> issue.message,
      suggestion |-> ImprovementSuggestion(issue),
      type       |-> issue.type,
      severity   |-> issue.severity ]

\* line 413: the issue is kept
Retained(issue, focus_area) == focus_area = "all" \/ issue.type = focus_area

RECURSIVE ImprovementsFrom(_, _, _)
\* lines 412-420: the loop over analysis["issues"] from the i-th issue on
ImprovementsFrom(issues, focus_area, i) ==
    IF i > Len(issues) THEN <<>>
    ELSE (IF Retained(issues[i], focus_area) THEN << Improvement(issues[i]) >> ELSE <<>>)
         \o ImprovementsFrom(issues, focus_area, i + 1)

\* the average sentence length above which the general improvement is added
SentenceLimit == 25

\* (mutant) the general improvement is added from the limit on
LongSentences_FromLimit(avg) == avg >= SentenceLimit * 10

\* line 423: avg_words_per_sentence > 25 (the average is kept in tenths)
LongSentences(avg) == avg > SentenceLimit * 10

\* lines 424-429
GeneralImprovement ==
    [ issue      |-> [fmt |-> "Average sentence length is high"],
      suggestion |-> [fmt |-> "Break long sentences into shorter, clearer ones"],
      type       |-> "grammar",
      severity   |-> "info" ]

\* the number of characters of the text the preview keeps
PreviewLimit == 100

\* text[:100] + "..." if len(text) > 100 else text
TextPreview(text) ==
    IF Len(text) > PreviewLimit THEN Take(text, PreviewLimit) \o << ".", ".", "." >> ELSE text

\* The mapping suggest_improvements returns.  text and analysis are not part of
\* it: they keep the argument of the call and the analysis it was made from.
SuggestResponse(text, focus_area, analysis) ==
    LET improvements ==
            ImprovementsFrom(analysis.issues, focus_area, 1)
            \o (IF LongSentences(analysis.statistics.avg_words_per_sentence)
                THEN << GeneralImprovement >> ELSE <<>>)
    IN  [ op                 |-> "suggest",
          text_preview       |-> TextPreview(text),
          total_improvements |-> Len(improvements),
          improvements       |-> improvements,
          focus_area         |-> focus_area,
          style_guide_url    |-> style_guide_base_url \o "/top-10-tips-style-voice",
          live_guidance      |-> analysis.live_guidance,
          web_enabled        |-> TRUE,
          text               |-> text,
          analysis           |-> analysis ]

\* the call goes on from the state `loop` of the guidance loop of its analysis:
\* it suspends in the next network read, or the analysis returns and lines
\* 410-439 run to the end
SuggestContinue(t, a, loop) ==
    IF loop.done
    THEN /\ task' = [task EXCEPT ![t] = Idle]
         /\ response' = SuggestResponse(a.text, a.focus_area,
                            AnalysisResponse(a.text, a.analysis_type, a.statistics, a.issues,
                                             a.suggestions, a.issue_types, loop.live_guidance,
                                             loop.lookups, now))
         /\ UNCHANGED session
    ELSE /\ task' = [task EXCEPT ![t] =
                        [ op |-> "suggest", url |-> LoopUrl(a.issue_types, loop),
                          text |-> a.text, analysis_type |-> a.analysis_type,
                          focus_area |-> a.focus_area,
                          statistics |-> a.statistics, issues |-> a.issues,
                          suggestions |-> a.suggestions, issue_types |-> a.issue_types,
                          ti |-> loop.ti, si |-> loop.si,
                          guidance_results |-> loop.guidance_results,
                          live_guidance |-> loop.live_guidance,
                          lookups |-> loop.lookups ]]
         /\ response' = None
         /\ session' = TRUE

\* the guidance loop of the analysis of the call a stopped at loop
SuggestEntered(t, a, loop) ==
    /\ SuggestContinue(t, a, loop)
    /\ pending' = IF loop.done THEN pending
                  ELSE IssueGet(pending, LoopUrl(a.issue_types, loop))
    /\ returned' = IF loop.last = NoUrl THEN returned
                   ELSE Return(loop.last, content_cache[loop.last], None, FALSE)

\* the analysis of the call a, its local analysis done, enters the guidance loop
SuggestStarted(t, a) ==
    SuggestEntered(t, a, GuidanceLoop(content_cache, a.issue_types, 1, 1, <<>>, EmptyDict,
                                      NoUrl, <<>>))

\* the issue types guidance is asked for, in the order of the set
SuggestIssues(t, text, focus_area, issues) ==
    \E order \in SetOrders(issues) :
        SuggestStarted(t, [ text |-> text, analysis_type |-> "comprehensive",
                            focus_area |-> focus_area,
                            statistics |-> Statistics(text), issues |-> issues,
                            suggestions |-> Suggestions(text),
                            issue_types |-> Take(order, GuidanceTopics) ])

\* lines 407-409: the call enters analyze_content(text, "comprehensive") and
\* runs up to the first network read (or to its end)
SuggestCall(t, text, focus_area) ==
    /\ task[t] = Idle
    /\ response = None
    /\ SuggestIssues(t, text, focus_area, Issues(text, "comprehensive"))
    /\ UNCHANGED <<content_cache, now>>

\* the guidance loop of the suspended call a went on to loop after its read of
\* a.url returned result and left the cache as cache
SuggestMoved(t, a, resp, result, cache, loop) ==
    /\ content_cache' = cache
    /\ SuggestContinue(t, a, loop)
    /\ pending' = IF loop.done THEN EndGet(pending, a.url)
                  ELSE IssueGet(EndGet(pending, a.url), LoopUrl(a.issue_types, loop))
    /\ returned' = IF loop.last = NoUrl
                   THEN Return(a.url, result, resp, Cached(content_cache, a.url))
                   ELSE Return(loop.last, cache[loop.last], None, FALSE)

\* lines 325-332 for the section that was read, then the loops go on
SuggestLanded(t, a, resp, section, result, cache) ==
    SuggestMoved(t, a, resp, result, cache,
                 GuidanceLoop(cache, a.issue_types, a.ti, a.si + 1,
                              AddGuidance(a.guidance_results, section, result),
                              a.live_guidance, NoUrl,
                              Append(a.lookups, Lookup(a.issue_types[a.ti], section, result))))

\* fetch_web_content returns result to get_official_guidance
SuggestFetched(t, a, resp, result) ==
    SuggestLanded(t, a, resp, RelevantSections[a.issue_types[a.ti]][a.si], result,
                  CacheAfter(content_cache, a.url, result))

\* a network read of the guidance of the analysis ends, the call goes on
SuggestResume(t, resp) ==
    /\ task[t].op = "suggest"
    /\ SuggestFetched(t, task[t], resp, FetchResult(task[t].url, resp, now))
    /\ UNCHANGED now

\* a text of n words "a" and no end of sentence
WordsOfA(n) == JoinSpace([i \in 1..n |-> << "a" >>])

\* the texts the callers ask improvements for: the analyzed texts, and a text of
\* one sentence at the limit of the sentence length and one just above it
SuggestTexts == Texts \cup {WordsOfA(SentenceLimit), WordsOfA(SentenceLimit + 1)}

\* the focus areas the callers name: the default, three categories, and a
\* name that is no category
FocusAreas == {"all", "voice_tone", "grammar", "accessibility", "style"}

\* the caller of suggest_improvements
SuggestTask == 1

NextSuggest ==
    \/ \E text \in SuggestTexts, focus_area \in FocusAreas :
          SuggestCall(SuggestTask, text, focus_area)
    \/ \E resp \in Responses : SuggestResume(SuggestTask, resp)

\* one caller, one call of suggest_improvements
SpecSuggest == InitAnalyze /\ [][NextSuggest]_vars

-----------------------------------------------------------------------------
(* get_style_guidelines *)

\* the category that selects each group of principles, besides "all"
GuidelineCategory ==
    [ voice_and_tone |-> "voice", grammar |-> "grammar",
      terminology |-> "terminology", accessibility |-> "accessibility" ]

\* lines 360-403: the groups of principles
Principles ==
    [ voice_and_tone |->
        [ warm_and_relaxed |-> << "Use contractions (it's, you're, we'll)",
                                  "Write like you speak - natural, conversational",
                                  "Be friendly and approachable" >>,
          crisp_and_clear  |-> << "Be direct and scannable",
                                  "Keep sentences under 25 words",
                                  "Use simple, clear language" >>,
          ready_to_help    |-> << "Use action-oriented language",
                                  "Address readers as 'you'",
                                  "Be supportive and encouraging" >>,
          official_url     |-> core_urls["voice_tone"] ],
      grammar |->
        [ active_voice       |-> "Use active voice for clarity and engagement",
          sentence_structure |-> "Keep sentences short and parallel",
          imperative_mood    |-> "Use for instructions (Click, Choose, Select)",
          official_url       |-> core_urls["writing_tips"] ],
      \* {**self.terminology_standards, "official_url": ...}
      terminology |->
        [ terminology_standards |-> terminology_standards,
          official_url          |-> core_urls["word_list"] ],
      accessibility |->
        [ inclusive_language |-> << "Use 'everyone' instead of 'guys'",
                                    "Use 'allow list' instead of 'whitelist'",
                                    "Use 'primary/secondary' instead of 'master/slave'" >>,
          people_first       |-> "Use 'people with disabilities' not 'disabled people'",
          gender_neutral     |-> "Avoid gendered pronouns in generic references",
          official_url       |-> core_urls["bias_free"] ] ]

\* get_style_guidelines(category): the groups whose test `category in [.., "all"]`
\* holds; a category that selects no group gives empty principles
get_style_guidelines(category) ==
    [ op          |-> "guidelines",
      category    |-> category,
      base_url    |-> style_guide_base_url,
      principles  |-> [ k \in {g \in DOMAIN GuidelineCategory :
                                  category \in {GuidelineCategory[g], "all"}} |->
                          Principles[k] ],
      web_enabled |-> TRUE ]

-----------------------------------------------------------------------------
(* The MCP endpoint: handle_mcp_request and handle_tool_call *)

\* dict.get(key, default)
Get(dict, key, default) == IF key \in DOMAIN dict THEN dict[key] ELSE default

\* str(None), for a params without "name"
NoName == "None"

\* the result of handle_initialize
InitializeResult ==
    [ op     |-> "mcp",
      result |-> [ protocolVersion |-> "0.1.0",
                   serverInfo      |-> [ name |-> "microsoft-style-guide", version |-> "2.0.0",
                                         transport |-> "http+sse" ],
                   capabilities    |-> [ tools |-> TRUE, resources |-> FALSE, prompts |-> TRUE ] ] ]

\* the result of handle_tools_list: the tools and the fields they require
ToolsListResult ==
    [ op     |-> "mcp",
      result |-> [ tools |-> << [ name |-> "analyze_content", required |-> {"text"} ],
                                [ name |-> "get_style_guidelines", required |-> {} ],
                                [ name |-> "suggest_improvements", required |-> {"text"} ],
                                [ name |-> "search_style_guide_live", required |-> {"query"} ] >> ] ]

\* the result of handle_prompts_list
PromptsListResult ==
    [ op     |-> "mcp",
      result |-> [ prompts |-> << [ name |-> "document_reviewer" ] >> ] ]

\* the result of handle_prompt_get for the one prompt
PromptResult ==
    [ op     |-> "mcp",
      result |-> [ prompt |-> [ name |-> "document_reviewer" ] ] ]

\* the handler returns result (without suspending); request is kept with it
Returned(request, result) ==
    /\ response' = [r \in DOMAIN result \cup {"request"} |->
                      IF r = "request" THEN request ELSE result[r]]
    /\ UNCHANGED <<content_cache, session, now, pending, task, returned>>

\* the handler raises: the exception reaches the except of handle_mcp_request
Raised(request, exception, message) ==
    /\ response' = [ op |-> "raise", exception |-> exception, message |-> message,
                     request |-> request ]
    /\ UNCHANGED <<content_cache, session, now, pending, task, returned>>

\* handle_tool_call, up to the first network read of the tool (or to its end)
handle_tool_call(t, request) ==
    LET params    == request.params
        tool_name == Get(params, "name", NoName)
        arguments == Get(params, "arguments", EmptyDict)
    IN  IF tool_name = "analyze_content"
        THEN IF "text" \notin DOMAIN arguments
             THEN Raised(request, "KeyError", [fmt |-> "'{key}'", key |-> "text"])
             ELSE AnalyzeCall(t, arguments.text, Get(arguments, "analysis_type", "comprehensive"))
        ELSE IF tool_name = "get_style_guidelines"
        THEN Returned(request, get_style_guidelines(Get(arguments, "category", "all")))
        ELSE IF tool_name = "suggest_improvements"
        THEN IF "text" \notin DOMAIN arguments
             THEN Raised(request, "KeyError", [fmt |-> "'{key}'", key |-> "text"])
             ELSE SuggestCall(t, arguments.text, Get(arguments, "focus_area", "all"))
        ELSE IF tool_name = "search_style_guide_live"
        THEN IF "query" \notin DOMAIN arguments
             THEN Raised(request, "KeyError", [fmt |-> "'{key}'", key |-> "query"])
             ELSE SearchCall(t, arguments.query)
        ELSE Raised(request, "ValueError",
                    [fmt |-> "Unknown tool: {tool_name}", tool_name |-> tool_name])

\* handle_mcp_request, up to the first network read (or to its end)
handle_mcp_request(t, request) ==
    /\ task[t] = Idle
    /\ response = None
    /\ IF request.method = "initialize" THEN Returned(request, InitializeResult)
       ELSE IF request.method = "tools/list" THEN Returned(request, ToolsListResult)
       ELSE IF request.method = "tools/call"
       THEN IF request.params = None
            THEN Raised(request, "ValueError", [fmt |-> "tools/call requires params"])
            ELSE handle_tool_call(t, request)
       ELSE IF request.method = "prompts/list" THEN Returned(request, PromptsListResult)
       ELSE IF request.method = "prompts/get"
       THEN IF request.params = None
            THEN Raised(request, "ValueError", [fmt |-> "prompts/get requires params"])
            ELSE IF Get(request.params, "name", NoName) = "document_reviewer"
            THEN Returned(request, PromptResult)
            ELSE Raised(request, "ValueError",
                        [ fmt |-> "Unknown prompt: {prompt_name}",
                          prompt_name |-> Get(request.params, "name", NoName) ])
       ELSE Raised(request, "ValueError",
                   [fmt |-> "Unknown method: {method}", method |-> request.method])

\* the results of the tools, which handle_tool_call wraps as JSON text
ToolResults == {"analyze", "suggest", "search", "guidelines"}

\* Lines 100-115 and 211: the MCPResponse made from what the handler returned
\* or raised.  The JSON text of a tool result is kept as the result itself.
MCPResponse(id, outcome) ==
    IF outcome.op = "raise"
    THEN [ jsonrpc |-> "2.0", result |-> None,
           error |-> [code |-> -32603, message |-> outcome.message], id |-> id ]
    ELSE IF outcome.op \in ToolResults
    THEN [ jsonrpc |-> "2.0",
           result |-> [content |-> << [type |-> "text", text |-> [json |-> outcome]] >>],
           error |-> None, id |-> id ]
    ELSE [ jsonrpc |-> "2.0", result |-> outcome.result, error |-> None, id |-> id ]

\* the MCPResponse has been sent: the endpoint takes the next request
SendResponse ==
    /\ response # None
    /\ response' = None
    /\ UNCHANGED <<content_cache, session, now, pending, task, returned>>

\* the arguments of the tool calls of the model
ToolArguments ==
    { EmptyDict,
      [ text |-> << "g","u","y","s"," ","l","o","g","i","n" >> ],
      [ text |-> << "w","a","s"," ","f","i","x","e","d","." >>,
        analysis_type |-> "grammar", focus_area |-> "grammar" ],
      [ query |-> << "t","i","p" >> ],
      [ category |-> "voice" ],
      [ category |-> "colours" ] }

\* the tools the callers name: the four tools and a name that is no tool
ToolNames ==
    { "analyze_content", "get_style_guidelines", "suggest_improvements",
      "search_style_guide_live", "translate" }

\* the requests the endpoint receives
Requests ==
    [ method : {"tools/call"}, id : {1},
      params : [name : ToolNames, arguments : ToolArguments]
                 \cup [arguments : {EmptyDict}] \cup [name : ToolNames \ {"translate"}] ]
    \cup [ method : {"initialize", "tools/list", "tools/call", "prompts/list",
                     "prompts/get", "resources/list"},
           id : {1}, params : {None} ]
    \cup [ method : {"prompts/get"}, id : {1},
           params : [name : {"document_reviewer", "translator"}] ]

\* the task that handles the requests
ServerTask == 1

\* the answers of the network to the reads of the tools: the first page, or
\* a status that is not 200
ServerResponses == {resp \in Responses : resp.kind = "response" /\ resp.body = 1}

NextServer ==
    \/ \E request \in Requests : handle_mcp_request(ServerTask, request)
    \/ \E resp \in ServerResponses : AnalyzeResume(ServerTask, resp)
    \/ \E resp \in ServerResponses : SuggestResume(ServerTask, resp)
    \/ \E resp \in ServerResponses : SearchResume(ServerTask, resp)
    \/ SendResponse

\* the endpoint handling one request after the other
SpecServer == Init /\ [][NextServer]_vars

-----------------------------------------------------------------------------
(* Properties of fetch_web_content *)

\* a step in which some call of fetch_web_content returned
Returns == returned' # returned

\* the tasks suspended in a network read of url
InFlight(url) == {t \in TaskIds : task[t].op # "idle" /\ task[t].url = url}

\* C1 (action part): no step issues a network read for a url the cache holds,
\* a call that returns without a network read returns the stored entry itself,
\* and when it follows a successful return for the same url the two full texts
\* are identical.
HitReturnsStored ==
    \A u \in Urls :
        u \in DOMAIN content_cache =>
            /\ pending'[u] <= pending[u]
            /\ (Returns /\ returned'.url = u /\ returned'.resp = None) =>
                  /\ returned'.result = content_cache[u]
                  /\ (returned # None /\ returned.url = u /\ returned.result.success) =>
                        returned'.result.full_content = returned.result.full_content

\* C1 (state part): the entry last returned with success is the entry the cache
\* holds for its url, so a call that follows it is a cache hit.
LastSuccessIsCached ==
    (returned # None /\ returned.result.success) =>
        /\ returned.url \in DOMAIN content_cache
        /\ content_cache[returned.url] = returned.result

OutcomeIsData(url, p, r) ==
    /\ "success" \in DOMAIN r
    /\ r.success \in BOOLEAN
    /\ (p.kind = "response" /\ p.status # 200) =>
          r = [ success |-> FALSE,
                error   |-> <<"H","T","T","P"," ">> \o Digits(p.status),
                url     |-> url ]
    /\ p.kind = "exception" =>
          r = [success |-> FALSE, error |-> p.msg, url |-> url]
    /\ r.success => (p.kind = "response" /\ p.status = 200)

\* C2: fetch(url) never raises: whatever the network outcome it returns a
\* mapping; a status other than 200 yields {success:false, error:"HTTP <code>"},
\* a transport failure yields {success:false, error:<message>}, and only a 200
\* response yields success:true.
C2_FetchReturnsFailuresAsData ==
    /\ \A t \in TaskIds :
          task[t].op = "fetch" =>
              \A resp \in Responses :
                  OutcomeIsData(task[t].url, resp, FetchResult(task[t].url, resp, now))
    /\ returned # None =>
          /\ "success" \in DOMAIN returned.result
          /\ returned.resp # None =>
                OutcomeIsData(returned.url, returned.resp, returned.result)

\* C2 witness: a call has returned the mapping of a non-200 response.
C2_Witness ==
    /\ returned # None
    /\ returned.resp # None
    /\ returned.resp.kind = "response"
    /\ returned.resp.status = 404
    /\ ~returned.result.success

\* C3 (state part): every call in flight has its own network read.
OwnNetworkRead == \A u \in Urls : pending[u] = Cardinality(InFlight(u))

\* C3 (action part): a successful network read replaces the whole entry of its
\* url by its own result, and nothing else changes that entry.
LastWriteWins ==
    \A u \in Urls :
        IF Returns /\ returned'.url = u /\ returned'.resp # None /\ returned'.result.success
        THEN /\ u \in DOMAIN content_cache'
             /\ content_cache'[u] = returned'.result
        ELSE /\ (u \in DOMAIN content_cache') = (u \in DOMAIN content_cache)
             /\ u \in DOMAIN content_cache => content_cache'[u] = content_cache[u]

\* C3: concurrent fetch(url) calls for the same uncached url each perform their
\* own network read, and the cache entry is exactly the whole result of the
\* successful fetch that completed last.
C3_ConcurrentFetchLastWriteWins == []OwnNetworkRead /\ [][LastWriteWins]_vars

\* C3 witness: of two calls that were in flight together, the second to complete
\* has replaced the entry the first one stored, and no call is left in flight.
C3_Witness ==
    /\ returned # None
    /\ returned.replaced
    /\ returned.resp # None
    /\ returned.result.success
    /\ content_cache[returned.url] = returned.result
    /\ \A u \in Urls : pending[u] = 0

-----------------------------------------------------------------------------
(* Properties of search_style_guide_live *)

\* a search has returned
SearchDone == response # None /\ response.op = "search"

\* C4: for every query and every combination of fetch outcomes, the result list
\* of search_live has every high-relevance entry before any medium-relevance
\* entry and never holds more than 5 entries.
C4_HighBeforeMediumAtMostFive ==
    SearchDone =>
        LET rs == response.results
        IN  /\ Len(rs) <= 5
            /\ \A i \in 1..Len(rs) : rs[i].relevance \in {"high", "medium"}
            /\ \A i, j \in 1..Len(rs) :
                  i < j => ~(rs[i].relevance = "medium" /\ rs[j].relevance = "high")

\* C4 witness: all six sections matched, with both labels among the five results.
C4_Witness ==
    /\ SearchDone
    /\ response.total_found = 6
    /\ Len(response.results) = 5
    /\ \E i, j \in 1..5 :
          response.results[i].relevance = "high" /\ response.results[j].relevance = "medium"

\* the lower-cased whitespace-separated tokens of the query, and how many of
\* them (by position) occur in the lower-cased text
QueryTokens(query) == Split(LowerStr(query))
TokensFound(query, text) ==
    LET tokens == QueryTokens(query)
        low    == LowerStr(text)
    IN  Cardinality({i \in 1..Len(tokens) :
                        \E k \in 1..(Len(low) + 1) : MatchAt(low, k, tokens[i])})

\* C5: for every section whose fetch succeeded (its entry is in the cache when
\* the one searching caller returns), the score is the number of query tokens
\* found in the full text; the section is a candidate iff the score is positive,
\* labelled high iff score >= floor(token_count / 2) and medium otherwise; a
\* section whose fetch failed is not a candidate.
C5_ScoreAndRelevanceLabel ==
    SearchDone =>
        \A sec \in Sections :
            LET url   == core_urls[sec]
                at    == {i \in 1..Len(response.candidates) :
                              response.candidates[i].section = sec}
                n     == Len(QueryTokens(response.query))
                score == TokensFound(response.query, content_cache[url].full_content)
            IN  IF url \in DOMAIN content_cache /\ score > 0
                THEN /\ Cardinality(at) = 1
                     /\ \A i \in at :
                           response.candidates[i].relevance =
                               IF score >= n \div 2 THEN "high" ELSE "medium"
                ELSE at = {}

\* C5 witness: a search returned a medium candidate whose score is positive and
\* below the floor, left out a section it fetched with score 0, and left out a
\* section whose fetch failed.
C5_Witness ==
    /\ SearchDone
    /\ \E i \in 1..Len(response.candidates) :
          /\ response.candidates[i].relevance = "medium"
          /\ TokensFound(response.query,
                         content_cache[response.candidates[i].url].full_content) = 1
    /\ \E sec \in Sections :
          /\ core_urls[sec] \in DOMAIN content_cache
          /\ \A i \in 1..Len(response.candidates) : response.candidates[i].section # sec
    /\ \E sec \in Sections : core_urls[sec] \notin DOMAIN content_cache

\* the section identifiers in reverse lexicographic order
DescendingIds ==
    << "writing_tips", "word_list", "welcome", "voice_tone", "top_tips", "bias_free" >>

\* the place of an entry in the order (relevance descending, section id descending)
Place(entry) ==
    (IF entry.relevance = "high" THEN 0 ELSE Len(DescendingIds))
        + (CHOOSE k \in 1..Len(DescendingIds) : DescendingIds[k] = entry.section)

\* C6: entries with the same relevance label are ordered by section identifier
\* descending, and the returned list is the first 5 entries of the order
\* (relevance descending, section id descending).
C6_TieBreakBySectionDescending ==
    SearchDone =>
        LET cs == response.candidates
            rs == response.results
        IN  /\ \A i, j \in 1..Len(cs) : i < j => Place(cs[i]) < Place(cs[j])
            /\ Len(rs) = IF Len(cs) < 5 THEN Len(cs) ELSE 5
            /\ \A i \in 1..Len(rs) : rs[i] = cs[i]
            /\ response.total_found = Len(cs)

\* C6 witness: six candidates with one label; the five returned start at
\* writing_tips and the smallest identifier, bias_free, is cut off.
C6_Witness ==
    /\ SearchDone
    /\ response.total_found = 6
    /\ Len(response.results) = 5
    /\ response.results[1].section = "writing_tips"
    /\ response.results[5].section = "top_tips"
    /\ response.results[1].relevance = response.results[5].relevance

\* the normalized text of each page, whole
NormalizedPages == [b \in DOMAIN Pages |-> NormalizeContent(Pages[b])]

\* the first min(n, length) characters of s
Prefix(s, n) == SubSeq(s, 1, IF Len(s) < n THEN Len(s) ELSE n)

\* C16: in every reachable state every cache entry holds the whole normalized
\* text of the page it was made from, and its excerpt is the first
\* min(limit, length) characters of that text (the limit is 2000 in the source);
\* a search scores a section on the full text: a section is a candidate exactly
\* when a query token occurs in the full text, also when none occurs in the
\* excerpt, and its preview is the excerpt.
C16_FullTextKeptExcerptCut ==
    /\ \A url \in DOMAIN content_cache :
          LET e == content_cache[url]
          IN  /\ \E b \in DOMAIN Pages : e.full_content = NormalizedPages[b]
              /\ e.content = Prefix(e.full_content, ExcerptLimit)
    /\ SearchDone =>
          \A sec \in Sections :
              LET url == core_urls[sec]
                  at  == {i \in 1..Len(response.candidates) :
                              response.candidates[i].section = sec}
              IN  IF /\ url \in DOMAIN content_cache
                     /\ TokensFound(response.query, content_cache[url].full_content) > 0
                  THEN /\ at # {}
                       /\ \A i \in at :
                             response.candidates[i].content_preview = content_cache[url].content
                  ELSE at = {}

\* C16 witness: a search returned a candidate whose full text is longer than
\* its excerpt and whose excerpt holds no token of the query.
C16_Witness ==
    /\ SearchDone
    /\ \E i \in 1..Len(response.candidates) :
          LET e == content_cache[response.candidates[i].url]
          IN  /\ Len(e.full_content) > ExcerptLimit
              /\ Len(e.content) = ExcerptLimit
              /\ TokensFound(response.query, e.content) = 0

-----------------------------------------------------------------------------
(* Properties of analyze_content *)

\* a call of analyze_content has returned
AnalyzeDone == response # None /\ response.op = "analyze"

\* the places of the issues of one category in the returned issues
IssuesOfType(ty) == {i \in 1..Len(response.issues) : response.issues[i].type = ty}

\* C7: the status label (the words after the emoji of the status string) is a
\* function of the number of returned issues only: 0 issues give "Excellent",
\* 1 or 2 give "Good", 3 or more give "Needs Work"; and total_issues is the
\* length of the issues sequence.
C7_StatusFromIssueCount ==
    AnalyzeDone =>
        LET n == Len(response.issues)
        IN  /\ response.total_issues = n
            /\ n = 0 => response.status.label = "Excellent"
            /\ n \in {1, 2} => response.status.label = "Good"
            /\ n >= 3 => response.status.label = "Needs Work"

\* C7 witness: a call returned exactly two issues and the label "Good".
C7_Witness ==
    /\ AnalyzeDone
    /\ Len(response.issues) = 2
    /\ response.status.label = "Good"

\* the contraction suggestions among the returned suggestions
ContractionSuggestions ==
    {i \in 1..Len(response.suggestions) :
        /\ response.suggestions[i].type = "positive"
        /\ response.suggestions[i].principle = "warm_and_relaxed"}

\* C8: for every analysis_type, a text with no contraction match gets exactly
\* one info-level voice_tone issue recommending contractions and no contraction
\* suggestion; a text with a contraction match gets a contraction suggestion
\* and no voice_tone issue.
C8_ContractionIssueOrSuggestion ==
    AnalyzeDone =>
        IF Len(FindAllAlts(response.text, ContractionAlts)) = 0
        THEN /\ Cardinality(IssuesOfType("voice_tone")) = 1
             /\ \A i \in IssuesOfType("voice_tone") :
                   /\ response.issues[i].severity = "info"
                   /\ response.issues[i].message.fmt =
                        "Consider using contractions (it's, you're, we'll) for a more natural tone"
             /\ ContractionSuggestions = {}
        ELSE /\ IssuesOfType("voice_tone") = {}
             /\ Cardinality(ContractionSuggestions) = 1

\* C8 witness: a text with a contraction and issues of other categories was
\* analyzed: it has the suggestion next to those issues.
C8_Witness ==
    /\ AnalyzeDone
    /\ ContractionSuggestions # {}
    /\ response.issues # <<>>

\* C9: grammar issues are emitted only for the analysis types comprehensive and
\* grammar, terminology issues only for comprehensive and terminology,
\* accessibility issues only for comprehensive and accessibility; with the
\* type voice_tone the issues hold at most the single voice_tone info issue.
C9_PassesGatedByAnalysisType ==
    AnalyzeDone =>
        /\ \A ty \in {"grammar", "terminology", "accessibility"} :
              IssuesOfType(ty) # {} => response.analysis_type \in {"comprehensive", ty}
        /\ response.analysis_type = "voice_tone" =>
              /\ Len(response.issues) <= 1
              /\ \A i \in 1..Len(response.issues) :
                    /\ response.issues[i].type = "voice_tone"
                    /\ response.issues[i].severity = "info"

\* C9 witness: the accessibility analysis of a text that also holds a term to
\* avoid returned an accessibility issue and no terminology issue.
C9_Witness ==
    /\ AnalyzeDone
    /\ response.analysis_type = "accessibility"
    /\ IssuesOfType("accessibility") # {}
    /\ Contains(<< "l","o","g","i","n" >>, response.text)
    /\ IssuesOfType("terminology") = {}

\* the distinct categories of the returned issues, in first-seen order
FirstSeenTypes ==
    LET S == IssueTypeSet(response.issues)
        first(ty) == CHOOSE i \in IssuesOfType(ty) : \A j \in IssuesOfType(ty) : i <= j
    IN  CHOOSE f \in [1..Cardinality(S) -> S] :
            \A i, j \in 1..Cardinality(S) : i < j => first(f[i]) < first(f[j])

\* C10: when the issues are of more than two distinct categories, the
\* categories guidance is looked up for are exactly the first 2 distinct
\* categories in first-seen order of the issues sequence.
C10_GuidanceForFirstSeenCategories ==
    (AnalyzeDone /\ Cardinality(IssueTypeSet(response.issues)) > 2) =>
        Range(response.issue_types) = {FirstSeenTypes[1], FirstSeenTypes[2]}

\* the guidance item lines 326-332 build from a fetch of the guidance
ItemOf(lookup) ==
    [ section  |-> lookup.section,
      title    |-> lookup.result.title,
      url      |-> core_urls[lookup.section],
      content  |-> lookup.result.content,
      official |-> TRUE ]

\* C11: the live guidance of a returned analysis is empty when there is no
\* issue; otherwise it has at most 2 keys, every key is the category of an issue
\* of the same result, and every key maps to one guidance item, built from a
\* successful fetch done for that category.
C11_GuidanceOnlyForIssueCategories ==
    AnalyzeDone =>
        LET g == response.live_guidance
        IN  /\ response.issues = <<>> => DOMAIN g = {}
            /\ Cardinality(DOMAIN g) <= 2
            /\ DOMAIN g \subseteq IssueTypeSet(response.issues)
            /\ \A k \in DOMAIN g :
                  \E i \in 1..Len(response.lookups) :
                     /\ response.lookups[i].topic = k
                     /\ response.lookups[i].success
                     /\ g[k] = ItemOf(response.lookups[i])

\* C11 witness: an analysis returned guidance for two categories although a
\* fetch of its guidance failed.
C11_Witness ==
    /\ AnalyzeDone
    /\ Cardinality(DOMAIN response.live_guidance) = 2
    /\ \E i \in 1..Len(response.lookups) : ~response.lookups[i].success

\* the places in lookups of the fetches done for category k
LookupsOf(k) == {i \in 1..Len(response.lookups) : response.lookups[i].topic = k}

\* the places in lookups of the successful fetches done for category k
SuccessesOf(k) == {i \in LookupsOf(k) : response.lookups[i].success}

\* C12: whatever the outcomes of the fetches, analyze returns a complete result:
\* statistics, issues, total and status are those of the text and the analysis
\* type alone; every selected category was looked up in each of its sections; a
\* category all of whose fetches failed has no guidance entry, and every other
\* selected category has the item of its own first successful fetch, whatever
\* happened to the fetches of the other category.
C12_AnalysisSurvivesFailedLookups ==
    AnalyzeDone =>
        /\ response.statistics = Statistics(response.text)
        /\ response.issues = Issues(response.text, response.analysis_type)
        /\ response.total_issues = Len(response.issues)
        /\ response.status = Status(Len(response.issues))
        /\ DOMAIN response.live_guidance \subseteq Range(response.issue_types)
        /\ \A k \in Range(response.issue_types) :
              /\ Cardinality(LookupsOf(k)) = Len(RelevantSections[k])
              /\ IF SuccessesOf(k) = {}
                 THEN k \notin DOMAIN response.live_guidance
                 ELSE /\ k \in DOMAIN response.live_guidance
                      /\ \E i \in SuccessesOf(k) :
                            /\ \A j \in SuccessesOf(k) : i <= j
                            /\ response.live_guidance[k] = ItemOf(response.lookups[i])

\* C12 witness: of two selected categories the first has guidance and the
\* second, all of whose fetches failed, has none.
C12_Witness ==
    /\ AnalyzeDone
    /\ Len(response.issue_types) = 2
    /\ response.issue_types[1] \in DOMAIN response.live_guidance
    /\ response.issue_types[2] \notin DOMAIN response.live_guidance
    /\ LookupsOf(response.issue_types[2]) # {}
    /\ SuccessesOf(response.issue_types[2]) = {}

\* the severity of the issues of each category
SeverityOf == [ voice_tone |-> "info", grammar |-> "warning",
                terminology |-> "warning", accessibility |-> "error" ]

\* C17: every issue of every returned analysis has a category among voice_tone,
\* grammar, terminology and accessibility, and the severity of its category:
\* voice_tone info, grammar and terminology warning, accessibility error.
C17_SeverityFixedByCategory ==
    AnalyzeDone =>
        \A i \in 1..Len(response.issues) :
            /\ response.issues[i].type \in DOMAIN SeverityOf
            /\ response.issues[i].severity = SeverityOf[response.issues[i].type]

\* C17 witness: one analysis returned issues of the three severities.
C17_Witness ==
    /\ AnalyzeDone
    /\ \A sev \in {"info", "warning", "error"} :
          \E i \in 1..Len(response.issues) : response.issues[i].severity = sev

\* C18: the issues (in order), the statistics and the status label of a returned
\* analysis are those of its text and analysis type alone, whatever the cache
\* held and whatever the network answered: two calls with the same text and
\* analysis type differ in their guidance at most.
C18_IssuesIndependentOfCacheAndNetwork ==
    AnalyzeDone =>
        LET issues == Issues(response.text, response.analysis_type)
        IN  /\ response.issues = issues
            /\ response.statistics = Statistics(response.text)
            /\ response.status.label = Status(Len(issues)).label

\* C18 witness: an analysis with several issues returned without guidance after
\* failed fetches (the same text also returns with guidance, see C12).
C18_Witness ==
    /\ AnalyzeDone
    /\ Len(response.issues) >= 2
    /\ response.lookups # <<>>
    /\ DOMAIN response.live_guidance = {}

\* the places of the text where a whitespace-separated token starts
TokenStarts(text) ==
    {i \in 1..Len(text) : ~IsSpace(text[i]) /\ (i = 1 \/ IsSpace(text[i - 1]))}

\* a character that makes a span between ends of sentence non-blank
Inked(c) == ~IsSpace(c) /\ c \notin SentenceEnds

\* the places of the text where the first such character of a span stands
SpanStarts(text) ==
    {i \in 1..Len(text) :
        /\ Inked(text[i])
        /\ \A j \in 1..(i - 1) :
              Inked(text[j]) => \E k \in (j + 1)..(i - 1) : text[k] \in SentenceEnds}

HelloText == << "H","e","l","l","o"," ","w","o","r","l","d","."," ","H","i","." >>

\* C19: word_count is the number of whitespace-separated tokens, sentence_count
\* the number of non-blank spans between runs of '.', '!' and '?', and
\* avg_words_per_sentence is word_count / max(1, sentence_count) to the nearest
\* tenth (kept in tenths); a text without a sentence gives avg = word_count,
\* and "Hello world. Hi." gives 3 words, 2 sentences and 1.5.
C19_AverageWordsPerSentence ==
    AnalyzeDone =>
        LET st == response.statistics
            w  == st.word_count
            d  == IF st.sentence_count < 1 THEN 1 ELSE st.sentence_count
            e  == 10 * w - st.avg_words_per_sentence * d
        IN  /\ w = Cardinality(TokenStarts(response.text))
            /\ st.sentence_count = Cardinality(SpanStarts(response.text))
            /\ 2 * e <= d /\ -2 * e <= d
            /\ st.sentence_count = 0 => st.avg_words_per_sentence = 10 * w
            /\ response.text = <<>> =>
                  st = [word_count |-> 0, sentence_count |-> 0, avg_words_per_sentence |-> 0]
            /\ response.text = HelloText =>
                  st = [word_count |-> 3, sentence_count |-> 2, avg_words_per_sentence |-> 15]

\* C19 witness: the analysis of "Hi.you was!?ok" returned 2 words in 3
\* sentences, an average that is rounded (0.7).
C19_Witness ==
    /\ AnalyzeDone
    /\ response.statistics =
          [word_count |-> 2, sentence_count |-> 3, avg_words_per_sentence |-> 7]

\* the avoid terms (standard, place in its avoid list) that occur in the text
AvoidTermsIn(text) ==
    UNION { { <<i, j>> : j \in { k \in DOMAIN terminology_standards[i].avoid :
                                    Contains(LowerStr(terminology_standards[i].avoid[k]),
                                             LowerStr(text)) } } :
            i \in DOMAIN terminology_standards }

\* what the passes other than the contraction test find in the text, counting
\* the passes the analysis type enables only
FurtherFindings(text, analysis_type) ==
    (IF analysis_type \in {"comprehensive", "grammar"}
     THEN Len(FindAllPassive(text)) ELSE 0)
    + (IF analysis_type \in {"comprehensive", "terminology"}
       THEN Cardinality(AvoidTermsIn(text)) ELSE 0)
    + (IF analysis_type \in {"comprehensive", "accessibility"}
       THEN Len(FindAllAlts(text, NonInclusiveAlts)) ELSE 0)

\* C21: analyze returns the status "Excellent" if and only if the text has at
\* least one contraction match and no pass enabled by the analysis type found
\* anything; a text with no contraction never gets "Excellent", and with no
\* contraction two further issues already give "Needs Work".
C21_ExcellentNeedsContraction ==
    AnalyzeDone =>
        LET contractions == Len(FindAllAlts(response.text, ContractionAlts))
            further      == FurtherFindings(response.text, response.analysis_type)
        IN  /\ (response.status.label = "Excellent") <=> (contractions >= 1 /\ further = 0)
            /\ contractions = 0 => response.status.label # "Excellent"
            /\ (contractions = 0 /\ further >= 2) => response.status.label = "Needs Work"

\* C21 witness: a text with no contraction in which the enabled passes found
\* exactly two things was returned as "Needs Work".
C21_Witness ==
    /\ AnalyzeDone
    /\ Len(FindAllAlts(response.text, ContractionAlts)) = 0
    /\ FurtherFindings(response.text, response.analysis_type) = 2
    /\ response.status.label = "Needs Work"

-----------------------------------------------------------------------------
(* Properties of suggest_improvements *)

\* a call of suggest_improvements has returned
SuggestDone == response # None /\ response.op = "suggest"

\* the issues of the comprehensive analysis the focus area keeps, in order
FocusIssues ==
    SelectSeq(Issues(response.text, "comprehensive"),
              LAMBDA issue : response.focus_area = "all" \/ issue.type = response.focus_area)

\* the improvements made from issues: all but the general one at the end
\* (a general improvement has severity info and type grammar, which no
\* improvement made from an issue has)
IsGeneral(improvement) == improvement.type = "grammar" /\ improvement.severity = "info"

\* C14: suggest_improvements returns, in issue order, one improvement for each
\* issue of the comprehensive analysis of the text whose category is the focus
\* area (for every issue when the focus area is "all"), followed by one general
\* suggestion if and only if avg_words_per_sentence exceeds 25;
\* total_improvements is the length of that list.
C14_OneImprovementPerFocusIssue ==
    SuggestDone =>
        LET kept  == FocusIssues
            avg   == Statistics(response.text).avg_words_per_sentence
            extra == IF avg > 250 THEN 1 ELSE 0
            imps  == response.improvements
        IN  /\ Len(imps) = Len(kept) + extra
            /\ response.total_improvements = Len(imps)
            /\ \A i \in 1..Len(kept) :
                  /\ imps[i].type = kept[i].type
                  /\ imps[i].severity = kept[i].severity
                  /\ imps[i].issue = kept[i].message
                  /\ ~IsGeneral(imps[i])
            /\ extra = 1 =>
                  /\ IsGeneral(imps[Len(imps)])
                  /\ imps[Len(imps)].issue.fmt = "Average sentence length is high"

\* C14 witness: a sentence of more than 25 words has one issue, the focus area
\* keeps it, and the general suggestion follows its improvement.
C14_Witness ==
    /\ SuggestDone
    /\ response.focus_area = "voice_tone"
    /\ Len(response.analysis.issues) = 1
    /\ Len(response.improvements) = 2
    /\ IsGeneral(response.improvements[2])

\* C15: every improvement made from an issue carries the template of the kind
\* of the issue: voice_tone the voice_tone template, a grammar issue of the
\* passive-voice pass the passive-voice template naming the matched text,
\* terminology the terminology template, accessibility the accessibility
\* template; the generic fallback is used for no issue of these four kinds.
C15_TemplateOfIssueKind ==
    SuggestDone =>
        \A i \in 1..Len(FocusIssues) :
            LET issue == FocusIssues[i]
                sug   == response.improvements[i].suggestion
            IN  /\ issue.type = "voice_tone" =>
                      sug.fmt = "Use more contractions and direct language to sound natural and friendly"
                /\ issue.type = "grammar" =>
                      sug = [fmt |-> "Change '{text}' to active voice", text |-> issue.text]
                /\ issue.type = "terminology" =>
                      sug.fmt = "Replace with Microsoft-approved term as noted"
                /\ issue.type = "accessibility" =>
                      sug = [fmt |-> "Use inclusive alternative for '{text}'", text |-> issue.text]
                /\ issue.type \in {"voice_tone", "grammar", "terminology", "accessibility"} =>
                      sug.fmt # "Follow Microsoft Style Guide recommendations"

-----------------------------------------------------------------------------
(* Properties of the MCP endpoint *)

\* the tools and the field each requires (the "required" of handle_tools_list)
RequiredField ==
    [ analyze_content |-> "text", suggest_improvements |-> "text",
      search_style_guide_live |-> "query" ]

\* the categories get_style_guidelines knows (the enum of handle_tools_list)
KnownCategories == {"all", "voice", "grammar", "terminology", "accessibility"}

\* a tool call with an input error: an unknown tool, a missing required
\* field, or an unknown category
IsInputError(request) ==
    /\ request.method = "tools/call"
    /\ request.params # None
    /\ LET name      == Get(request.params, "name", NoName)
           arguments == Get(request.params, "arguments", EmptyDict)
       IN  \/ name \notin DOMAIN RequiredField \cup {"get_style_guidelines"}
           \/ /\ name \in DOMAIN RequiredField
              /\ RequiredField[name] \notin DOMAIN arguments
           \/ /\ name = "get_style_guidelines"
              /\ "category" \in DOMAIN arguments
              /\ arguments.category \notin KnownCategories

\* C13: a tool call with a missing required field (text or query), one naming
\* an unknown tool, and a get_style_guidelines call naming an unknown category
\* each get an MCPResponse with an error and no result.
C13_InputErrorsGetErrorResponse ==
    (/\ response # None
     /\ "request" \in DOMAIN response
     /\ IsInputError(response.request)) =>
        LET reply == MCPResponse(response.request.id, response)
        IN  /\ reply.error # None
            /\ reply.result = None

\* no failure is ever an entry of the cache
CacheHoldsSuccesses ==
    \A u \in DOMAIN content_cache : content_cache[u].success /\ content_cache[u].url = u

\* the response was a 200
Is200(resp) == resp.kind = "response" /\ resp.status = 200

\* a step changes the cache at the url of a network read that ended in it only,
\* to an entry made from a 200 response, and removes no key
CacheFrame ==
    LET ended   == {u \in Urls : pending'[u] < pending[u]}
        changed == {u \in DOMAIN content_cache' :
                       u \notin DOMAIN content_cache \/ content_cache'[u] # content_cache[u]}
    IN  /\ DOMAIN content_cache \subseteq DOMAIN content_cache'
        /\ changed \subseteq ended
        /\ Cardinality(changed) <= 1
        /\ \A u \in changed : \E b \in DOMAIN Pages : content_cache'[u] = SuccessResult(u, b, now)
        /\ (returned' # returned /\ returned'.resp # None /\ ~Is200(returned'.resp)) =>
              content_cache' = content_cache
        /\ (returned' # returned /\ returned'.resp = None /\ ended = {}) =>
              content_cache' = content_cache

====
